---- MODULE Spec2Model ----
(***************************************************************************)
(* mod_shimaore: the unicast media tap of src/mod_shimaore.c.              *)
(*                                                                         *)
(* The state is one session: its channel private "_shimaore_unicast_bug_", *)
(* the media bug attached to it, and the shimaore_context_t the bug        *)
(* carries.  The operations are the API command (start / stop) and the bug *)
(* callback (INIT / READ / CLOSE) with shimaore_send.                      *)
(*                                                                         *)
(* Buffers are C arrays: C index i is element i + 1 of the sequence.       *)
(***************************************************************************)
EXTENDS Integers, Sequences, FiniteSets, TLC

\* SWITCH_RECOMMENDED_BUFFER_SIZE is 8192 in switch_types.h; the model is
\* scaled.  The 12-byte header and the 24-byte swap offset are not, so the
\* size is kept large enough that, as with 8192, a bunch of a few short
\* frames and one full frame fits packet_buffer, and only a bunch within 24
\* bytes of 2 * SWITCH_RECOMMENDED_BUFFER_SIZE does not.
SWITCH_RECOMMENDED_BUFFER_SIZE == 32

BUNCHER_MAXIMUM_PACKET_COUNT == 10

\* Number of READ callbacks, start commands and CLOSE callbacks explored.
MaxReads == 3

MaxStarts == 2

MaxCloses == 2

\* Threads that run API commands for the session at the same time.
NumThreads == 2

\* Media bugs added to the session by those threads.
MaxBugs == 3

\* sizeof buncher_buffer, sizeof packet_buffer
Capacity == 2 * SWITCH_RECOMMENDED_BUFFER_SIZE

RTP_HEADER_LEN == 12

\* (int16_t *)context->packet_buffer+12: the cast binds before the addition,
\* so the pointer handed to switch_swap_linear is 12 int16_t, i.e. 24 bytes,
\* into packet_buffer.
SwapByteOffset == RTP_HEADER_LEN * 2

\* Bytes of the context that follow packet_buffer (framing, rtp_ssrc,
\* rtp_sequence_number, padding, rtp_timestamp) and the bytes after it that
\* a copy or swap running past packet_buffer can reach.
TailLen == RTP_HEADER_LEN + 12

RAND_MAX == 2147483647

\* A null pointer.
NULL == [null |-> TRUE]

SHIMAORE_FRAMING_PLAIN == "PLAIN"

SHIMAORE_FRAMING_RTP_L16 == "RTP_L16"

\* An enum object whose bytes were overwritten holds neither enumerator.
FRAMING_INVALID == "INVALID"

Pow2(n) == 2 ^ n

U8(x) == x % 256

U16(x) == x % Pow2(16)

\* x >> n for an unsigned x
Shr(x, n) == x \div Pow2(n)

\* A uint32_t is held as its two 16-bit halves, value = hi * 2^16 + lo.
\* W32(v) is the conversion of the int v to uint32_t (v + 2^32 when v < 0).
W32(v) == [hi |-> U16(v \div Pow2(16)), lo |-> U16(v)]

\* w + n in uint32_t arithmetic, for 0 <= n < 2^16
W32Add(w, n) ==
    [hi |-> U16(w.hi + ((w.lo + n) \div Pow2(16))), lo |-> U16(w.lo + n)]

\* (uint8_t)(w >> s) for s in {24, 16, 8, 0}
W32Byte(w, s) ==
    CASE s = 24 -> U8(Shr(w.hi, 8))
      [] s = 16 -> U8(w.hi)
      [] s = 8  -> U8(Shr(w.lo, 8))
      [] OTHER  -> U8(w.lo)

\* Comparisons of a uint32_t with a small constant c, 0 <= c < 2^16
W32Le(w, c) == w.hi = 0 /\ w.lo <= c

W32Gt(w, c) == w.hi > 0 \/ w.lo > c

Max(a, b) == IF a < b THEN b ELSE a

Fill(n, b) == [i \in 1..n |-> b]

\* The first n bytes at buf; n is at most the array's size wherever the
\* model reads (PacketMemory extends packet_buffer by the bytes behind it).
Bytes(buf, n) == [i \in 1..n |-> IF i <= Len(buf) THEN buf[i] ELSE 0]

RECURSIVE Flatten(_)
Flatten(ss) == IF ss = <<>> THEN <<>> ELSE Head(ss) \o Flatten(Tail(ss))

VARIABLES
    channel_private,    \* channel private SHIMAORE_UNICAST_BUG: TRUE when a bug pointer is stored
    bug_attached,       \* the media bug is attached to the session
    context,            \* the shimaore_context_t of the session's bug, NULL when there is none
    wire,               \* datagrams handed to switch_socket_send on context.socket
    last_send,          \* outcome of the switch_socket_send of the latest step, "none" when it made none
    accepted,           \* frames the READ callback appended, in arrival order
    flushes,            \* calls of shimaore_send on the context
    high_water,         \* highest end offset of a frame written into buncher_buffer
    reads,              \* READ callbacks so far
    starts,             \* contexts handed to a bug so far
    closes,             \* CLOSE callbacks the context has received
    reply,              \* what the latest step wrote to the API stream, "none" for a callback
    argv,               \* argv[2..] of the start command that made context, << >> when there is none
    pc,                 \* per API thread: where it is in shimaore_unicast_api_function
    local_bug,          \* per API thread: its local variable bug, 0 for NULL
    private_bug,        \* the bug pointer stored as channel private, 0 for NULL
    session_bugs,       \* the media bugs attached to the session
    bugs_added          \* media bugs added to the session so far

\* The session as one command or callback at a time sees it.
svars == <<channel_private, bug_attached, context, wire, last_send,
           accepted, flushes, high_water, reads, starts, closes, reply, argv>>

\* The session as API threads running at the same time see it.
tvars == <<pc, local_bug, private_bug, session_bugs, bugs_added>>

vars == <<svars, tvars>>

----------------------------------------------------------------------------
(* shimaore_send *)

\* packet_buffer[0..11] as lines 85-99 assign them (uint8_t truncates).
RtpHeader(ctx) ==
    << U8(2 * Pow2(6)), 96,
       U8(Shr(ctx.rtp_sequence_number, 8)), U8(ctx.rtp_sequence_number),
       W32Byte(ctx.rtp_timestamp, 24), W32Byte(ctx.rtp_timestamp, 16),
       W32Byte(ctx.rtp_timestamp, 8), W32Byte(ctx.rtp_timestamp, 0),
       W32Byte(ctx.rtp_ssrc, 24), W32Byte(ctx.rtp_ssrc, 16),
       W32Byte(ctx.rtp_ssrc, 8), W32Byte(ctx.rtp_ssrc, 0) >>

\* switch_swap_linear(buf, n) on the byte array mem, buf being byte offset
\* off: each of the n 16-bit samples has its two bytes exchanged.
switch_swap_linear(mem, off, n) ==
    [i \in 1..Len(mem) |->
        IF i - 1 >= off /\ i - 1 < off + 2 * n
        THEN IF (i - 1 - off) % 2 = 0 THEN mem[i + 1] ELSE mem[i - 1]
        ELSE mem[i]]

\* The memory at packet_buffer after lines 85-105: header, memcpy of len
\* bytes at offset 12, then the sample swap.  mem is packet_buffer followed
\* by the TailLen bytes behind it.
PacketMemory(ctx, tail) ==
    LET len  == ctx.buncher_position
        mem0 == ctx.packet_buffer \o tail
        hdr  == RtpHeader(ctx)
        mem1 == [i \in 1..Len(mem0) |->
                    IF i <= RTP_HEADER_LEN THEN hdr[i]
                    ELSE IF i <= RTP_HEADER_LEN + len
                         THEN Bytes(ctx.buncher_buffer, len)[i - RTP_HEADER_LEN]
                         ELSE mem0[i]]
    IN switch_swap_linear(mem1, SwapByteOffset, len \div 2)

\* The copy or the swap of lines 101-104 runs past the end of packet_buffer.
PacketOverrun(ctx) ==
    LET len == ctx.buncher_position IN
    \/ RTP_HEADER_LEN + len > Capacity
    \/ len \div 2 > 0 /\ SwapByteOffset + 2 * (len \div 2) > Capacity

\* What the members behind packet_buffer may hold after an overrun: the
\* write is outside the array, so each may be unchanged or hold other bytes.
\* tail is the value of the bytes behind packet_buffer before the call.
Clobbers(ctx) ==
    { [framing |-> ctx.framing, rtp_ssrc |-> ctx.rtp_ssrc,
       rtp_sequence_number |-> ctx.rtp_sequence_number,
       rtp_timestamp |-> ctx.rtp_timestamp, tail |-> 0],
      [framing |-> FRAMING_INVALID, rtp_ssrc |-> ctx.rtp_ssrc,
       rtp_sequence_number |-> ctx.rtp_sequence_number,
       rtp_timestamp |-> ctx.rtp_timestamp, tail |-> 1],
      [framing |-> ctx.framing, rtp_ssrc |-> W32(0),
       rtp_sequence_number |-> 258,
       rtp_timestamp |-> W32(16909060), tail |-> 1] }

Unclobbered(ctx) ==
    [framing |-> ctx.framing, rtp_ssrc |-> ctx.rtp_ssrc,
     rtp_sequence_number |-> ctx.rtp_sequence_number,
     rtp_timestamp |-> ctx.rtp_timestamp, tail |-> 0]

\* The nondeterminism of one shimaore_send: the members behind packet_buffer
\* after the call's writes, and the bytes that were behind it before.
SendChoices(ctx) ==
    IF ctx.framing = SHIMAORE_FRAMING_RTP_L16 /\ PacketOverrun(ctx)
    THEN Clobbers(ctx)
    ELSE {Unclobbered(ctx)}

\* Mutant: the reset of line 114 is missing.
ResetBuncher_KeepsCount(ctx) ==
    [ctx EXCEPT !.buncher_position = 0]

\* Lines 113-114.
ResetBuncher(ctx) ==
    [ctx EXCEPT !.buncher_position = 0, !.buncher_frame_count = 0]

\* Lines 109-110, on the members as the writes above left them.
AdvanceRtp(ctx, clob) ==
    [ctx EXCEPT !.framing = clob.framing,
                !.rtp_ssrc = clob.rtp_ssrc,
                !.rtp_sequence_number = U16(clob.rtp_sequence_number + 1),
                !.rtp_timestamp = W32Add(clob.rtp_timestamp, ctx.buncher_position)]

\* The datagrams shimaore_send hands to switch_socket_send (none or one),
\* each with the bunch, the number of frames in it and the RTP members it
\* was built from.
SendDatagrams(ctx, clob) ==
    LET len == ctx.buncher_position IN
    CASE ctx.framing = SHIMAORE_FRAMING_PLAIN ->
            << [framing |-> ctx.framing,
                data |-> Bytes(ctx.buncher_buffer, len),
                payload |-> Bytes(ctx.buncher_buffer, len),
                frames |-> ctx.buncher_frame_count,
                seq |-> ctx.rtp_sequence_number, ts |-> ctx.rtp_timestamp,
                ssrc |-> ctx.rtp_ssrc] >>
      [] ctx.framing = SHIMAORE_FRAMING_RTP_L16 ->
            << [framing |-> ctx.framing,
                data |-> Bytes(PacketMemory(ctx, Fill(TailLen, clob.tail)), len + RTP_HEADER_LEN),
                payload |-> Bytes(ctx.buncher_buffer, len),
                frames |-> ctx.buncher_frame_count,
                seq |-> ctx.rtp_sequence_number, ts |-> ctx.rtp_timestamp,
                ssrc |-> ctx.rtp_ssrc] >>
      [] OTHER -> << >>

\* The context after shimaore_send (lines 72-115).
shimaore_send(ctx, clob) ==
    CASE ctx.framing = SHIMAORE_FRAMING_PLAIN -> ResetBuncher(ctx)
      [] ctx.framing = SHIMAORE_FRAMING_RTP_L16 ->
            ResetBuncher(
                [AdvanceRtp(ctx, clob) EXCEPT
                    !.packet_buffer =
                        SubSeq(PacketMemory(ctx, Fill(TailLen, clob.tail)), 1, Capacity)])
      [] OTHER -> ResetBuncher(ctx)

----------------------------------------------------------------------------
(* shimaore_unicast_bug_callback *)

\* Mutant: the byte threshold is the buffer size, not the recommended size.
FlushDue_AtCapacity(ctx) ==
    \/ ctx.buncher_position >= Capacity
    \/ ctx.buncher_frame_count >= ctx.buncher_maximum

\* Line 169: the bunch is sent when it has reached the recommended size or
\* the configured number of frames.
FlushDue(ctx) ==
    \/ ctx.buncher_position >= SWITCH_RECOMMENDED_BUFFER_SIZE
    \/ ctx.buncher_frame_count >= ctx.buncher_maximum

\* Line 135: the CLOSE callback sends what is left.
CloseFlushDue(ctx) == ctx.buncher_position > 0

\* Mutant: the frame is stored at the start of buncher_buffer.
AppendFrame_AtStart(ctx, frame) ==
    [ctx EXCEPT
        !.buncher_buffer =
            [i \in 1..Capacity |->
                IF i <= Len(frame) THEN frame[i] ELSE ctx.buncher_buffer[i]],
        !.buncher_position = ctx.buncher_position + Len(frame),
        !.buncher_frame_count = ctx.buncher_frame_count + 1]

\* Mutant: the position is set to the frame's length instead of advanced.
AppendFrame_SetsPosition(ctx, frame) ==
    [ctx EXCEPT
        !.buncher_buffer =
            [i \in 1..Capacity |->
                IF i > ctx.buncher_position /\ i <= ctx.buncher_position + Len(frame)
                THEN frame[i - ctx.buncher_position]
                ELSE ctx.buncher_buffer[i]],
        !.buncher_position = Len(frame),
        !.buncher_frame_count = ctx.buncher_frame_count + 1]

\* Lines 153-164: switch_core_media_bug_read stores the frame at
\* buncher_buffer + buncher_position, then the frame is counted.
AppendFrame(ctx, frame) ==
    [ctx EXCEPT
        !.buncher_buffer =
            [i \in 1..Capacity |->
                IF i > ctx.buncher_position /\ i <= ctx.buncher_position + Len(frame)
                THEN frame[i - ctx.buncher_position]
                ELSE ctx.buncher_buffer[i]],
        !.buncher_position = ctx.buncher_position + Len(frame),
        !.buncher_frame_count = ctx.buncher_frame_count + 1]

\* Frame sizes delivered by the tap: read_frame.buflen (line 154) limits a
\* frame to SWITCH_RECOMMENDED_BUFFER_SIZE bytes.
FrameLens ==
    {0, 3, SWITCH_RECOMMENDED_BUFFER_SIZE - 1, SWITCH_RECOMMENDED_BUFFER_SIZE}

\* The n-th byte of the audio stream; consecutive bytes differ.
Sample(n) == 1 + (n % 255)

\* The frame of len bytes that follows base bytes of audio.
Frame(base, len) == [k \in 1..len |-> Sample(base + k)]

SendResults == {"sent", "failed", "partial"}

\* shimaore_send called from a callback: the context, the datagram log and
\* the call count after it.  result is what switch_socket_send returned,
\* which lines 79 and 107 ignore.
Flush(ctx, clob, result) ==
    /\ context' = shimaore_send(ctx, clob)
    /\ wire' = wire \o SendDatagrams(ctx, clob)
    /\ last_send' = IF SendDatagrams(ctx, clob) = << >> THEN "none" ELSE result
    /\ flushes' = flushes + 1

\* Mutant: a callback that sends nothing still counts a frame.
NoFlush_CountsFrame(ctx) ==
    /\ context' = [ctx EXCEPT !.buncher_frame_count = ctx.buncher_frame_count + 1]
    /\ last_send' = "none"
    /\ UNCHANGED <<wire, flushes>>

\* The callback returns without a call of shimaore_send (lines 147, 159 and
\* the false branches of lines 135 and 169).
NoFlush(ctx) ==
    /\ context' = ctx
    /\ last_send' = "none"
    /\ UNCHANGED <<wire, flushes>>

\* SWITCH_ABC_TYPE_CLOSE, lines 131-140.
CloseBody ==
    IF CloseFlushDue(context)
    THEN \E clob \in SendChoices(context), result \in SendResults :
            Flush(context, clob, result)
    ELSE NoFlush(context)

\* SWITCH_ABC_TYPE_READ, lines 141-174: status is what
\* switch_core_media_bug_read returned, len the frame's datalen.
ReadCallback ==
    /\ bug_attached
    /\ reads < MaxReads
    /\ reads' = reads + 1
    /\ \E status \in {"SUCCESS", "FALSE"}, len \in FrameLens :
        IF context.socket = NULL \/ status # "SUCCESS"
        THEN /\ len = 0
             /\ NoFlush(context)
             /\ UNCHANGED <<accepted, high_water>>
        ELSE LET frame == Frame(Len(Flatten(accepted)), len)
                 ctx1  == AppendFrame(context, frame)
             IN /\ accepted' = Append(accepted, frame)
                /\ high_water' = Max(high_water, ctx1.buncher_position)
                /\ IF FlushDue(ctx1)
                   THEN \E clob \in SendChoices(ctx1), result \in SendResults :
                            Flush(ctx1, clob, result)
                   ELSE NoFlush(ctx1)
    /\ reply' = "none"
    /\ UNCHANGED <<channel_private, bug_attached, starts, closes, argv>>

\* The CLOSE callback as the core invokes it when it closes the bug on its
\* own (and, for a closed bug, once more).
CloseCallback ==
    /\ context # NULL
    /\ closes < MaxCloses
    /\ closes' = closes + 1
    /\ CloseBody
    /\ bug_attached' = FALSE
    /\ reply' = "none"
    /\ UNCHANGED <<channel_private, accepted, high_water, reads, starts, argv>>

----------------------------------------------------------------------------
(* shimaore_unicast_api_function *)

\* What follows the '=' of an argument.  A decimal numeral is written as
\* wraps * 2^32 + low with low in the range of int, so that a numeral too
\* large for int can be written down; anything else is a word.
Numeral(wraps, low) == [kind |-> "dec", wraps |-> wraps, low |-> low]

Word == [kind |-> "word", wraps |-> 0, low |-> 0]

\* atoi(value), lines 294, 302, 306, 311: 0 for a word; the value of a
\* numeral int can hold; for a larger numeral the C library's
\* (int) strtol(value, NULL, 10), which keeps the low 32 bits.
atoi(text) == IF text.kind = "dec" THEN text.low ELSE 0

\* One key=value argument: sign is whether it holds an '=', empty whether
\* nothing follows the '=', text is what follows.
Arg(key, v) == [key |-> key, sign |-> TRUE, empty |-> FALSE, text |-> Numeral(0, v)]

\* key=value whose value is wraps * 2^32 + low.
BigArg(key, wraps, low) ==
    [key |-> key, sign |-> TRUE, empty |-> FALSE, text |-> Numeral(wraps, low)]

\* key=value whose value is not a number.
WordArg(key) == [key |-> key, sign |-> TRUE, empty |-> FALSE, text |-> Word]

NoSignArg == [key |-> "remote_port", sign |-> FALSE, empty |-> FALSE, text |-> Word]

EmptyArg == [key |-> "remote_port", sign |-> TRUE, empty |-> TRUE, text |-> Word]

\* Lines 264-276: the context and the locals before the arguments are read.
\* switch_core_session_alloc returns zeroed memory.
ParseInit(r1, r2) ==
    [usage |-> FALSE,
     local_port |-> 5876,
     remote_port |-> 0,
     buncher_maximum |-> W32(BUNCHER_MAXIMUM_PACKET_COUNT),
     framing |-> SHIMAORE_FRAMING_PLAIN,
     rtp_ssrc |-> W32(0),
     rtp_sequence_number |-> U16(r1),
     rtp_timestamp |-> W32(r2)]

\* One turn of the loop of lines 278-315.
ParseArg(p, tok) ==
    IF p.usage THEN p
    ELSE IF ~tok.sign \/ tok.empty THEN [p EXCEPT !.usage = TRUE]
    ELSE CASE tok.key = "remote_ip" -> p
           [] tok.key = "remote_port" -> [p EXCEPT !.remote_port = atoi(tok.text)]
           [] tok.key = "local_ip" -> p
           [] tok.key = "local_port" -> [p EXCEPT !.remote_port = atoi(tok.text)]
           [] tok.key = "frames_per_packet" ->
                [p EXCEPT !.buncher_maximum = W32(atoi(tok.text))]
           [] tok.key = "rtp_ssrc" ->
                [p EXCEPT !.framing = SHIMAORE_FRAMING_RTP_L16,
                          !.rtp_ssrc = W32(atoi(tok.text))]
           [] OTHER -> [p EXCEPT !.usage = TRUE]

RECURSIVE ParseArgs(_, _)
ParseArgs(p, args) ==
    IF args = << >> THEN p ELSE ParseArgs(ParseArg(p, Head(args)), Tail(args))

\* The loop of lines 278-315 left for usage, or lines 317-325 did.
UsageError(p) ==
    \/ p.usage
    \/ p.remote_port <= 0
    \/ p.local_port <= 0
    \/ W32Le(p.buncher_maximum, 0)
    \/ W32Gt(p.buncher_maximum, BUNCHER_MAXIMUM_PACKET_COUNT)

\* The steps of lines 335-389 that can fail, in order, and their replies.
SetupSteps ==
    << "local_addr", "remote_addr", "socket_create", "reuseaddr", "nonblock",
       "bind", "connect", "bug_add" >>

SetupReply(step) ==
    CASE step = "local_addr"    -> "-ERR Failure for local!"
      [] step = "remote_addr"   -> "-ERR Failure for remote!"
      [] step = "socket_create" -> "-ERR Failure creating socket!"
      [] step = "reuseaddr"     -> "-ERR Failure setting socket re-use!"
      [] step = "nonblock"      -> "-ERR Failure setting socket non-blocking!"
      [] step = "bind"          -> "-ERR Failure binding socket!"
      [] step = "connect"       -> "-ERR Failure connecting socket!"
      [] step = "bug_add"       -> "-ERR Failure!"
      [] OTHER                  -> "+OK Success"

\* The context a successful start hands to the bug.
NewContext(p) ==
    [socket |-> [local_port |-> p.local_port, remote_port |-> p.remote_port],
     buncher_position |-> 0,
     buncher_frame_count |-> 0,
     buncher_maximum |-> p.buncher_maximum.lo,
     buncher_buffer |-> Fill(Capacity, 0),
     packet_buffer |-> Fill(Capacity, 0),
     framing |-> p.framing,
     rtp_ssrc |-> p.rtp_ssrc,
     rtp_sequence_number |-> p.rtp_sequence_number,
     rtp_timestamp |-> p.rtp_timestamp]

\* Values the two calls of rand() return at lines 269-270.
Rands == { <<RAND_MAX, RAND_MAX>> }

\* frames_per_packet values explored: accepted ones and rejected ones.
FppValues == {1, 2, BUNCHER_MAXIMUM_PACKET_COUNT}

BadFppValues == {-1, 0, BUNCHER_MAXIMUM_PACKET_COUNT + 1}

\* Argument lists of the start commands explored.
StartArgs ==
    LET fpps == { << >> } \cup { << Arg("frames_per_packet", n) >> : n \in FppValues }
        few  == { b \in fpps : b = << >> \/ b[1].text.low < BUNCHER_MAXIMUM_PACKET_COUNT }
    IN { << Arg("remote_port", 7000) >> \o b : b \in fpps }
       \cup { << Arg("remote_port", 7000) >> \o b \o << Arg("rtp_ssrc", 1234) >> : b \in few }
       \cup { << Arg("remote_port", 7000), Arg("frames_per_packet", n) >> : n \in BadFppValues }
       \cup { << Arg("remote_port", 7000), BigArg("frames_per_packet", 1, 3) >>,
              << Arg("remote_port", 7000), WordArg("frames_per_packet") >> }
       \cup { << >>,
              << Arg("frames_per_packet", 2) >>,
              << Arg("local_port", 6000) >>,
              << Arg("local_port", 6000), Arg("remote_port", 7000),
                 WordArg("remote_ip"), WordArg("local_ip") >>,
              << Arg("remote_port", 0) >>,
              << NoSignArg >>,
              << Arg("remote_port", 7000), EmptyArg >>,
              << Arg("remote_port", 7000), Arg("codec", 0) >> }

\* The start commands explored: every argument list with a setup that
\* succeeds, and one of them with each setup step failing.
StartInputs ==
    { [args |-> a, fail |-> "none"] : a \in StartArgs }
    \cup { [args |-> << Arg("remote_port", 7000) >>, fail |-> SetupSteps[i]] :
             i \in 1..Len(SetupSteps) }

\* Mutant: the channel private is set before the setup has succeeded.
Unattached_MarksChannel ==
    /\ context' = NULL
    /\ wire' = << >>
    /\ accepted' = << >>
    /\ flushes' = 0
    /\ high_water' = 0
    /\ last_send' = "none"
    /\ closes' = 0
    /\ argv' = << >>
    /\ channel_private' = TRUE
    /\ UNCHANGED <<bug_attached, starts>>

\* A start command that gets past line 262 allocates a context; when it
\* fails, no bug ever carries that context.
Unattached ==
    /\ context' = NULL
    /\ wire' = << >>
    /\ accepted' = << >>
    /\ flushes' = 0
    /\ high_water' = 0
    /\ last_send' = "none"
    /\ closes' = 0
    /\ argv' = << >>
    /\ UNCHANGED <<channel_private, bug_attached, starts>>

\* Mutant: the start command does not look at the channel private.
AlreadyActivated_Never == FALSE

\* Line 251: switch_channel_get_private(channel, SHIMAORE_UNICAST_BUG) is
\* not NULL.
AlreadyActivated == channel_private

\* The start command, lines 244-395, on the located session.  starts
\* counts the contexts handed to a bug.
ApiStart ==
    /\ IF AlreadyActivated
       THEN /\ reply' = "-ERR Unicast already activated"
            /\ last_send' = "none"
            /\ UNCHANGED <<channel_private, bug_attached, context, wire,
                           accepted, flushes, high_water, starts, closes, argv>>
       ELSE \E in \in StartInputs :
            LET p0 == ParseArgs(ParseInit(0, 0), in.args) IN
            IF Len(in.args) < 1
            THEN /\ reply' = "-USAGE"
                 /\ last_send' = "none"
                 /\ UNCHANGED <<channel_private, bug_attached, context, wire,
                                accepted, flushes, high_water, starts, closes, argv>>
            ELSE IF UsageError(p0)
            THEN /\ reply' = "-USAGE"
                 /\ Unattached
            ELSE IF in.fail # "none"
            THEN /\ reply' = SetupReply(in.fail)
                 /\ Unattached
            ELSE \E r \in Rands :
                 /\ starts < MaxStarts
                 /\ starts' = starts + 1
                 /\ reply' = SetupReply(in.fail)
                 /\ context' = NewContext(ParseArgs(ParseInit(r[1], r[2]), in.args))
                 /\ bug_attached' = TRUE
                 /\ channel_private' = TRUE
                 /\ wire' = << >>
                 /\ accepted' = << >>
                 /\ flushes' = 0
                 /\ high_water' = 0
                 /\ last_send' = "none"
                 /\ closes' = 0
                 /\ argv' = in.args
    /\ UNCHANGED reads

\* Mutant: the stop command leaves the channel private as it found it.
PrivateAfterStop_Kept == channel_private

\* Line 235: switch_channel_set_private(channel, SHIMAORE_UNICAST_BUG, NULL).
PrivateAfterStop == FALSE

\* The stop command, lines 230-242: switch_core_media_bug_remove closes an
\* attached bug, which runs its CLOSE callback.
ApiStop ==
    /\ IF channel_private
       THEN /\ channel_private' = PrivateAfterStop
            /\ reply' = "+OK Success"
            /\ IF bug_attached
               THEN /\ CloseBody
                    /\ closes' = closes + 1
                    /\ bug_attached' = FALSE
               ELSE /\ last_send' = "none"
                    /\ UNCHANGED <<context, wire, flushes, closes, bug_attached>>
       ELSE /\ reply' = "+OK Not activated"
            /\ last_send' = "none"
            /\ UNCHANGED <<channel_private, bug_attached, context, wire, flushes, closes>>
    /\ UNCHANGED <<accepted, high_water, reads, starts, argv>>

----------------------------------------------------------------------------

(* shimaore_unicast_api_function run by several threads at once.  Each    *)
(* thread holds the session's read lock (line 216), which does not keep    *)
(* the others out; the calls into the core (channel private, media bug     *)
(* add and remove) are each atomic.                                        *)

Threads == 1..NumThreads

\* Lines 248-256 of a start command: the channel private is read.  With a
\* bug stored the command answers "already activated" and is over.
StartCheck(t) ==
    /\ pc[t] = "idle"
    /\ private_bug = 0
    /\ pc' = [pc EXCEPT ![t] = "setup"]
    /\ UNCHANGED <<local_bug, private_bug, session_bugs, bugs_added>>

\* Lines 258-372: arguments and socket; a failure ends the command.
StartSetup(t) ==
    /\ pc[t] = "setup"
    /\ \E ok \in BOOLEAN : pc' = [pc EXCEPT ![t] = IF ok THEN "attach" ELSE "idle"]
    /\ UNCHANGED <<local_bug, private_bug, session_bugs, bugs_added>>

\* Lines 384-389: switch_core_media_bug_add attaches a new bug to the
\* session, or fails.
StartAttach(t) ==
    /\ pc[t] = "attach"
    /\ \/ /\ bugs_added < MaxBugs
          /\ bugs_added' = bugs_added + 1
          /\ session_bugs' = session_bugs \cup {bugs_added + 1}
          /\ local_bug' = [local_bug EXCEPT ![t] = bugs_added + 1]
          /\ pc' = [pc EXCEPT ![t] = "mark"]
       \/ /\ pc' = [pc EXCEPT ![t] = "idle"]
          /\ UNCHANGED <<local_bug, session_bugs, bugs_added>>
    /\ UNCHANGED private_bug

\* Line 391: switch_channel_set_private(channel, SHIMAORE_UNICAST_BUG, bug).
StartMark(t) ==
    /\ pc[t] = "mark"
    /\ private_bug' = local_bug[t]
    /\ local_bug' = [local_bug EXCEPT ![t] = 0]
    /\ pc' = [pc EXCEPT ![t] = "idle"]
    /\ UNCHANGED <<session_bugs, bugs_added>>

\* Line 233 of a stop command: the channel private is read into bug.
\* Without a bug stored the command answers "not activated" and is over.
StopFind(t) ==
    /\ pc[t] = "idle"
    /\ private_bug # 0
    /\ local_bug' = [local_bug EXCEPT ![t] = private_bug]
    /\ pc' = [pc EXCEPT ![t] = "clear"]
    /\ UNCHANGED <<private_bug, session_bugs, bugs_added>>

\* Line 235: switch_channel_set_private(channel, SHIMAORE_UNICAST_BUG, NULL).
StopClear(t) ==
    /\ pc[t] = "clear"
    /\ private_bug' = 0
    /\ pc' = [pc EXCEPT ![t] = "remove"]
    /\ UNCHANGED <<local_bug, session_bugs, bugs_added>>

\* Line 236: switch_core_media_bug_remove(rsession, &bug) detaches the bug
\* if the session still has it.
StopRemove(t) ==
    /\ pc[t] = "remove"
    /\ session_bugs' = session_bugs \ {local_bug[t]}
    /\ local_bug' = [local_bug EXCEPT ![t] = 0]
    /\ pc' = [pc EXCEPT ![t] = "idle"]
    /\ UNCHANGED <<private_bug, bugs_added>>

----------------------------------------------------------------------------

\* After module load: the session has no unicast bug.
Init ==
    /\ channel_private = FALSE
    /\ bug_attached = FALSE
    /\ context = NULL
    /\ wire = << >>
    /\ last_send = "none"
    /\ accepted = << >>
    /\ flushes = 0
    /\ high_water = 0
    /\ reads = 0
    /\ starts = 0
    /\ closes = 0
    /\ reply = "none"
    /\ argv = << >>
    /\ pc = [t \in Threads |-> "idle"]
    /\ local_bug = [t \in Threads |-> 0]
    /\ private_bug = 0
    /\ session_bugs = {}
    /\ bugs_added = 0

\* Commands and callbacks run one at a time, each to its end.
Next ==
    \/ ApiStart /\ UNCHANGED tvars
    \/ ApiStop /\ UNCHANGED tvars
    \/ ReadCallback /\ UNCHANGED tvars
    \/ CloseCallback /\ UNCHANGED tvars

Spec == Init /\ [][Next]_vars

\* Start and stop commands of several threads, interleaved step by step.
NextThreads ==
    \/ \E t \in Threads : StartCheck(t) /\ UNCHANGED svars
    \/ \E t \in Threads : StartSetup(t) /\ UNCHANGED svars
    \/ \E t \in Threads : StartAttach(t) /\ UNCHANGED svars
    \/ \E t \in Threads : StartMark(t) /\ UNCHANGED svars
    \/ \E t \in Threads : StopFind(t) /\ UNCHANGED svars
    \/ \E t \in Threads : StopClear(t) /\ UNCHANGED svars
    \/ \E t \in Threads : StopRemove(t) /\ UNCHANGED svars

SpecThreads == Init /\ [][NextThreads]_vars

----------------------------------------------------------------------------
(* Properties *)

HasContext == context # NULL

Rec == SWITCH_RECOMMENDED_BUFFER_SIZE

\* The bytes of all datagrams handed to the socket, in send order.
WireBytes == Flatten([k \in 1..Len(wire) |-> wire[k].data])

AcceptedBytes == Flatten(accepted)

LastSent == wire[Len(wire)]

IsPlainRun ==
    /\ HasContext
    /\ context.framing = SHIMAORE_FRAMING_PLAIN
    /\ \A k \in 1..Len(wire) : wire[k].framing = SHIMAORE_FRAMING_PLAIN

\* A step that called shimaore_send.
FlushStep == HasContext /\ flushes' = flushes + 1

\* A READ callback step that accepted a frame.
AcceptStep == HasContext /\ Len(accepted') = Len(accepted) + 1

\* A step that ran the CLOSE callback on the context.
CloseStep == HasContext /\ closes' = closes + 1

\* C1: immediately after every call of shimaore_send, from the READ or the
\* CLOSE callback, in either framing and whatever the send returned,
\* buncher_position = 0 and buncher_frame_count = 0.
C1_FlushResets ==
    [][FlushStep =>
         /\ context'.buncher_position = 0
         /\ context'.buncher_frame_count = 0]_vars

\* A flush of an RTP bunch whose send did not succeed has left both at 0.
C1_Witness ==
    /\ HasContext
    /\ flushes > 0
    /\ last_send \in {"failed", "partial"}
    /\ LastSent.framing = SHIMAORE_FRAMING_RTP_L16
    /\ closes = 1
    /\ context.buncher_position = 0
    /\ context.buncher_frame_count = 0

\* C2: buncher_position stays within 0..sizeof buncher_buffer and no frame
\* is stored past the end of buncher_buffer, for frames of at most
\* SWITCH_RECOMMENDED_BUFFER_SIZE bytes and every accepted frames_per_packet.
C2_PositionInBuffer ==
    HasContext =>
        /\ context.buncher_position >= 0
        /\ context.buncher_position <= Capacity
        /\ high_water <= Capacity

\* A frame of the largest size was stored behind a bunch one byte short of
\* the byte threshold.
C2_Witness ==
    /\ HasContext
    /\ high_water = Capacity - 1
    /\ Len(accepted) = 2
    /\ Len(accepted[2]) = Rec

\* C3 (as stated): after each accepted frame a flush happens exactly when
\* buncher_position >= SWITCH_RECOMMENDED_BUFFER_SIZE or buncher_frame_count
\* >= buncher_maximum, and each such flush is one call of shimaore_send and
\* one datagram, carrying the whole bunch.
C3_OneDatagramPerCrossing ==
    [][AcceptStep =>
         LET pos == context.buncher_position + Len(accepted'[Len(accepted')])
             cnt == context.buncher_frame_count + 1
             due == pos >= Rec \/ cnt >= context.buncher_maximum
         IN IF due
            THEN /\ flushes' = flushes + 1
                 /\ Len(wire') = Len(wire) + 1
                 /\ Len(wire'[Len(wire')].payload) = pos
            ELSE /\ flushes' = flushes
                 /\ wire' = wire]_vars

C5_RtpCountersAdvance ==
    [][(FlushStep /\ context.framing = SHIMAORE_FRAMING_RTP_L16) =>
         LET n == Len(wire'[Len(wire')].payload)
             carry == IF context.rtp_timestamp.lo + n >= Pow2(16) THEN 1 ELSE 0
         IN /\ context'.rtp_sequence_number =
                  (IF context.rtp_sequence_number = Pow2(16) - 1 THEN 0
                   ELSE context.rtp_sequence_number + 1)
            /\ context'.rtp_timestamp.lo = (context.rtp_timestamp.lo + n) % Pow2(16)
            /\ context'.rtp_timestamp.hi = (context.rtp_timestamp.hi + carry) % Pow2(16)]_vars

\* The big-endian value of two bytes.
BigEndian16(b1, b2) == b1 * 256 + b2

\* C6 (as stated): every RTP datagram is 12 + payload bytes long, begins
\* 0x80 0x60, then carries the sequence number, timestamp and ssrc held
\* before the flush, big-endian; consecutive datagrams carry consecutive
\* sequence numbers, 0xFFFF being followed by 0.
C6_RtpHeader ==
    /\ \A k \in 1..Len(wire) :
         wire[k].framing = SHIMAORE_FRAMING_RTP_L16 =>
            LET d == wire[k].data IN
            /\ Len(d) = 12 + Len(wire[k].payload)
            /\ d[1] = 128 /\ d[2] = 96
            /\ BigEndian16(d[3], d[4]) = wire[k].seq
            /\ BigEndian16(d[5], d[6]) = wire[k].ts.hi
            /\ BigEndian16(d[7], d[8]) = wire[k].ts.lo
            /\ BigEndian16(d[9], d[10]) = wire[k].ssrc.hi
            /\ BigEndian16(d[11], d[12]) = wire[k].ssrc.lo
    /\ \A k \in 1..(Len(wire) - 1) :
         (wire[k].framing = SHIMAORE_FRAMING_RTP_L16
            /\ wire[k + 1].framing = SHIMAORE_FRAMING_RTP_L16) =>
            wire[k + 1].seq = (wire[k].seq + 1) % Pow2(16)

\* C7 (as stated): in an RTP datagram every 16-bit sample of the payload
\* has its bytes exchanged: datagram[12+2i] = buncher_buffer[2i+1] and
\* datagram[12+2i+1] = buncher_buffer[2i] for every i < payload_length / 2.
C7_PayloadSwapped ==
    \A k \in 1..Len(wire) :
       wire[k].framing = SHIMAORE_FRAMING_RTP_L16 =>
          \A i \in 0..((Len(wire[k].payload) \div 2) - 1) :
             /\ wire[k].data[12 + 2 * i + 1] = wire[k].payload[2 * i + 2]
             /\ wire[k].data[12 + 2 * i + 2] = wire[k].payload[2 * i + 1]

\* C8: in Plain framing the datagrams handed to the socket, in send order,
\* followed by the bytes still in buncher_buffer, are the accepted frames in
\* arrival order; after the CLOSE callback nothing is left in the buffer,
\* so the datagrams alone are the accepted frames.
C8_PlainStreamPreserved ==
    IsPlainRun =>
        /\ WireBytes \o Bytes(context.buncher_buffer, context.buncher_position)
              = AcceptedBytes
        /\ closes >= 1 => (context.buncher_position = 0 /\ WireBytes = AcceptedBytes)

\* Three frames went out in two datagrams, the second sent by the CLOSE
\* callback.
C8_Witness ==
    /\ IsPlainRun
    /\ closes >= 1
    /\ context.buncher_maximum = 2
    /\ Len(accepted) = 3
    /\ Len(wire) = 2
    /\ Len(LastSent.data) = 3
    /\ WireBytes = AcceptedBytes

\* C9 (as stated): a CLOSE callback with buncher_position > 0 makes exactly
\* one more flush, which carries the partial bunch; one with
\* buncher_position = 0 sends nothing; a CLOSE callback after the first
\* sends nothing and changes no state.
C9_CloseFlushesOnce ==
    [][CloseStep =>
         /\ IF context.buncher_position > 0
            THEN /\ flushes' = flushes + 1
                 /\ context'.buncher_position = 0
                 /\ Len(wire') = Len(wire) + 1
                 /\ wire'[Len(wire')].payload =
                       Bytes(context.buncher_buffer, context.buncher_position)
            ELSE /\ flushes' = flushes
                 /\ wire' = wire
                 /\ context' = context
         /\ closes >= 1 =>
               (flushes' = flushes /\ wire' = wire /\ context' = context)]_vars

\* C10 (as stated): once the CLOSE callback has run, the context holds no
\* socket.
C10_SocketReleased ==
    (HasContext /\ closes >= 1) => context.socket = NULL

\* What a start command writes when it refuses: the usage line or one of
\* the "-ERR" lines.
StartRejections ==
    {"-USAGE", "-ERR Unicast already activated"}
    \cup {SetupReply(SetupSteps[i]) : i \in 1..Len(SetupSteps)}

\* A step of the start command: it wrote a refusal, or "+OK Success" for a
\* context newly handed to a bug.
StartStep ==
    \/ reply' \in StartRejections
    \/ reply' = "+OK Success" /\ starts' = starts + 1

\* A step of the stop command.
StopStep ==
    \/ reply' = "+OK Not activated"
    \/ reply' = "+OK Success" /\ starts' = starts

\* A step of the READ callback.
ReadStep == reads' = reads + 1

\* C11: a start command on a session whose tap is attached is answered
\* "-ERR Unicast already activated" and leaves the tap, the marker, the
\* context (buffers, counters, framing, RTP state, socket) and what was sent
\* unchanged; no second context is handed to a bug.
C11_SecondStartRejected ==
    [][(StartStep /\ bug_attached) =>
         /\ reply' = "-ERR Unicast already activated"
         /\ UNCHANGED <<context, bug_attached, channel_private, wire,
                        accepted, flushes, starts, closes>>]_vars

\* A start was rejected while the tap held a frame of an RTP context.
C11_Witness ==
    /\ reply = "-ERR Unicast already activated"
    /\ bug_attached
    /\ channel_private
    /\ starts = 1
    /\ context.framing = SHIMAORE_FRAMING_RTP_L16
    /\ context.buncher_position = 3
    /\ context.buncher_frame_count = 1

C13_FailedStartLeavesNoTap ==
    [][(StartStep /\ ~channel_private) =>
         \/ /\ reply' = "+OK Success"
            /\ bug_attached' /\ channel_private'
            /\ starts' = starts + 1
            /\ context'.socket # NULL
            /\ context'.socket.remote_port > 0
            /\ context'.buncher_maximum \in 1..BUNCHER_MAXIMUM_PACKET_COUNT
         \/ /\ reply' \in StartRejections \ {"-ERR Unicast already activated"}
            /\ ~bug_attached' /\ ~channel_private'
            /\ UNCHANGED <<bug_attached, channel_private, starts>>]_vars

\* The attachment of the bug failed on a session that had been started and
\* stopped before; nothing is attached and the marker is unset.
C13_Witness ==
    /\ reply = "-ERR Failure!"
    /\ starts = 1
    /\ ~bug_attached
    /\ ~channel_private

\* The value written for frames_per_packet in the start command that made
\* the context lies in 1..10, or the option is absent.
FppWritten(args) ==
    \A k \in 1..Len(args) :
       args[k].key = "frames_per_packet" =>
          /\ args[k].text.kind = "dec"
          /\ args[k].text.wraps = 0
          /\ args[k].text.low \in 1..BUNCHER_MAXIMUM_PACKET_COUNT

\* C14 (as stated): every context with a tap attached has buncher_maximum
\* in 1..10, and came from a start command whose frames_per_packet value,
\* if given, is a number in 1..10 (0, a negative number, a number above 10
\* and a non-number are refused); without the option buncher_maximum is 10.
C14_FramesPerPacketInRange ==
    bug_attached =>
       /\ context.buncher_maximum \in 1..BUNCHER_MAXIMUM_PACKET_COUNT
       /\ FppWritten(argv)
       /\ (\A k \in 1..Len(argv) : argv[k].key # "frames_per_packet")
             => context.buncher_maximum = BUNCHER_MAXIMUM_PACKET_COUNT

\* The number written for the option key in args, the last one when it is
\* given more than once, default when it is not given.
RECURSIVE OptionWritten(_, _, _)
OptionWritten(args, key, default) ==
    IF args = << >> THEN default
    ELSE LET last == args[Len(args)] IN
         IF last.key = key THEN last.text.low
         ELSE OptionWritten(SubSeq(args, 1, Len(args) - 1), key, default)

\* C15 (as stated): the socket of an attached tap is bound to the port
\* written for local_port (5876 without the option) and connected to the
\* port written for remote_port, which was given and is positive.
C15_PortsAsWritten ==
    bug_attached =>
       /\ context.socket.local_port = OptionWritten(argv, "local_port", 5876)
       /\ context.socket.remote_port = OptionWritten(argv, "remote_port", 0)
       /\ \E k \in 1..Len(argv) : argv[k].key = "remote_port"
       /\ context.socket.remote_port > 0

\* C16: a READ callback that accepts no frame (no socket in the context, or
\* switch_core_media_bug_read did not succeed) leaves the context with its
\* buncher_position, buncher_frame_count and RTP counters unchanged, sends
\* no datagram, and leaves the tap attached.
C16_DroppedFrameNoOp ==
    [][(ReadStep /\ Len(accepted') = Len(accepted)) =>
         /\ context' = context
         /\ wire' = wire
         /\ flushes' = flushes
         /\ last_send' = "none"
         /\ bug_attached' /\ channel_private']_vars

\* A READ callback dropped its frame on an RTP context that holds one
\* frame, and the tap is still attached.
C16_Witness ==
    /\ bug_attached
    /\ reads = 2
    /\ Len(accepted) = 1
    /\ context.framing = SHIMAORE_FRAMING_RTP_L16
    /\ context.buncher_position = 3
    /\ context.buncher_frame_count = 1
    /\ wire = << >>

\* C17 (as stated): at every flush in RTP framing the packet fits
\* packet_buffer, 12 + buncher_position <= 2 * SWITCH_RECOMMENDED_BUFFER_SIZE,
\* and neither the copy of the payload nor the swap of its samples reaches
\* past the end of packet_buffer.
C17_PacketFits ==
    [][(FlushStep /\ context.framing = SHIMAORE_FRAMING_RTP_L16) =>
         LET n == Len(wire'[Len(wire')].payload) IN
         /\ 12 + n <= 2 * SWITCH_RECOMMENDED_BUFFER_SIZE
         /\ n \div 2 > 0 => SwapByteOffset + 2 * (n \div 2) <= 2 * SWITCH_RECOMMENDED_BUFFER_SIZE]_vars

\* The bunches of all datagrams handed to the socket, in send order.
WirePayload == Flatten([k \in 1..Len(wire) |-> wire[k].payload])

\* C18 (as stated): between callbacks buncher_position is below
\* SWITCH_RECOMMENDED_BUFFER_SIZE and buncher_frame_count below
\* buncher_maximum; no datagram carries more than buncher_maximum frames;
\* and every accepted frame but the last buncher_frame_count ones, which
\* are fewer than buncher_maximum, has been sent.
C18_BunchBounded ==
    HasContext =>
       /\ context.buncher_position < SWITCH_RECOMMENDED_BUFFER_SIZE
       /\ context.buncher_frame_count < context.buncher_maximum
       /\ \A k \in 1..Len(wire) : wire[k].frames <= context.buncher_maximum
       /\ context.buncher_frame_count <= Len(accepted)
       /\ WirePayload =
             Flatten(SubSeq(accepted, 1, Len(accepted) - context.buncher_frame_count))

\* C20 (as stated): every datagram handed to the socket carries at least
\* one payload byte: no Plain datagram is empty and no RTP datagram is the
\* 12 header bytes alone.
C20_NoEmptyDatagram ==
    \A k \in 1..Len(wire) :
       /\ Len(wire[k].payload) >= 1
       /\ wire[k].framing = SHIMAORE_FRAMING_PLAIN => Len(wire[k].data) >= 1
       /\ wire[k].framing = SHIMAORE_FRAMING_RTP_L16 => Len(wire[k].data) > RTP_HEADER_LEN

\* No command is part-way through.
Quiescent == \A t \in Threads : pc[t] = "idle"

\* C19 (as stated): for every interleaving of the steps of start and stop
\* commands on one session, at most one unicast tap is attached at any
\* time, and the activation marker is set exactly when a tap is attached
\* (compared whenever no command is part-way through).
C19_AtMostOneTap ==
    /\ Cardinality(session_bugs) <= 1
    /\ Quiescent => (private_bug # 0 <=> session_bugs # {})

====
